---- MODULE Spec2Model ----
\* Model of src/mac/system.rs (sysinfo, macOS backend): the process table and
\* its refresh cycle, the disk-type cache, the command-line token merger and
\* the decoder of the KERN_PROCARGS2 buffer.
EXTENDS Integers, Sequences, FiniteSets, TLC

\* ------------------------------------------------------------------ bounds
MaxPid == 2
MaxCount == 3

\* ------------------------------------------------------------- conventions
NoneV == "None"
PIDS == 1..MaxPid

VARIABLES
    process_list,   \* System::process_list : HashMap<Pid, Process>
    phase,          \* position of refresh_processes: idle / parallel / merge / swept
    pids,           \* Vec<Pid> returned by get_proc_list in the current cycle
    wpc,            \* per work unit of the par_iter: "start" / "task" / "done"
    wres,           \* per work unit: the Result returned by update_process
    entries,        \* Vec<Process> collected from the parallel phase
    last            \* observation of the latest call (what it was given, what it did)

VARIABLES
    DISK_TYPES,     \* the RefCell<Option<HashMap<OsString, DiskType>>> of line 56
    dpc,            \* per caller of Syncer::get_disk_types: its position
    dlocal,         \* per caller: the table get_disk_types() returned to it
    dseen,          \* per caller: the table its callback ran on
    ncalls,         \* per caller: the calls it has started
    enumerations,   \* number of invocations of get_disk_types()
    enum_log        \* per invocation of get_disk_types(), in order: did
                    \* IOServiceGetMatchingServices succeed

VARIABLES
    cmd,            \* parse_command_line: the token slice given
    command,        \* parse_command_line: the vector returned
    ppc             \* "ready" before the call, "done" after it

VARIABLES
    proc_args,      \* the buffer filled by sysctl(KERN_PROCARGS2)
    decoded,        \* the fields the decode gives to Process::new_with2
    bpc             \* "ready" before the decode, "done" after it

VARIABLES
    processors,     \* System::processors : Vec<Processor>, the aggregate entry first
    cpu_calls       \* number of refresh_cpu calls made

VARIABLES
    mem_total,      \* System::mem_total, in KB
    mem_free,       \* System::mem_free, in KB
    swap_total,     \* System::swap_total, in KB
    swap_free,      \* System::swap_free, in KB
    mem_calls,      \* number of refresh_memory calls made
    mem_panicked    \* a refresh_memory call ended in an arithmetic-overflow panic

tvars == <<process_list, phase, pids, wpc, wres, entries, last>>
dvars == <<DISK_TYPES, dpc, dlocal, dseen, ncalls, enumerations, enum_log>>
pvars == <<cmd, command, ppc>>
bvars == <<proc_args, decoded, bpc>>
cvars == <<processors, cpu_calls>>
mvars == <<mem_total, mem_free, swap_total, swap_free, mem_calls, mem_panicked>>
vars == <<tvars, dvars, pvars, bvars, cvars, mvars>>

\* ------------------------------------------------------- kernel responses
\* proc_pidinfo(PROC_PIDTHREADINFO): 0 on failure, else pth_run_state
ThreadInfoResults == {NoneV, "Running"}
\* proc_pidinfo(PROC_PIDTASKINFO) / the ptinfo part of PROC_PIDTASKALLINFO:
\* resident and virtual sizes in bytes
TaskInfoRecords == {[ok |-> TRUE, resident |-> 512, virtual |-> 4096],
                    [ok |-> TRUE, resident |-> 2048, virtual |-> 4096]}
TaskInfoFail == [ok |-> FALSE, resident |-> 0, virtual |-> 0]
TaskInfoResults == {TaskInfoFail} \cup TaskInfoRecords
\* pbsd.pbi_ppid of PROC_PIDTASKALLINFO
TaskAllInfoFail == [ok |-> FALSE, ppid |-> 0, ptinfo |-> TaskInfoFail]
TaskAllInfoResults ==
    {TaskAllInfoFail} \cup {[ok |-> TRUE, ppid |-> 1, ptinfo |-> t] : t \in TaskInfoRecords}
\* /bin/ps: the command could not be run, or its stdout split on ' '
PsErr == [ok |-> FALSE, out |-> << >>]
PsResults == {PsErr} \cup {[ok |-> TRUE, out |-> o] :
                 o \in {<< >>, <<"0", "cmd">>, <<"1", "cmd">>, <<"x", "cmd">>}}
\* sysctl(KERN_PROCARGS2): -1, or a buffer (whatever its length, lines 454
\* and 536-538: both branches return a descriptor)
ProcArgsResults == {"fail", "buffer"}

KernelResponses ==
    [thread : ThreadInfoResults, task : TaskInfoResults,
     taskall : TaskAllInfoResults, ps : PsResults, args : ProcArgsResults]

\* the answers of a kernel in which the PID no longer exists
DeadKernel ==
    [thread |-> NoneV, task |-> TaskInfoFail, taskall |-> TaskAllInfoFail,
     ps |-> [ok |-> TRUE, out |-> << >>], args |-> "fail"]

\* the answers to the queries update_process makes for a PID of the given kind
\* (absent / zero / nonzero); a query it does not make is left unanswered,
\* written as its failing value
KernelAnswers(kind) ==
    CASE kind = "zero" ->
           {[DeadKernel EXCEPT !.thread = th] : th \in ThreadInfoResults}
      [] kind = "nonzero" ->
           {[DeadKernel EXCEPT !.thread = th, !.task = t] :
              th \in ThreadInfoResults, t \in TaskInfoResults}
      [] OTHER ->
           {[DeadKernel EXCEPT !.thread = th, !.ps = ps] :
              th \in ThreadInfoResults, ps \in PsResults}
           \cup
           {[DeadKernel EXCEPT !.thread = th, !.taskall = ta, !.args = a] :
              th \in ThreadInfoResults, ta \in TaskAllInfoResults \ {TaskAllInfoFail},
              a \in ProcArgsResults}

\* Option<Pid> of a parent id: 0 stands for None (lines 381, 394-397)
OptPid(ppid) == ppid

\* ------------------------------------------------------------ Process type
\* Process::new / new_with / new_with2 (sys::process): a fresh descriptor is
\* marked updated, with memory 0 until the caller fills it in
NewProcess(pid, parent) ==
    [pid |-> pid, parent |-> parent, decoded |-> NoneV, process_status |-> NoneV,
     memory |-> 0, virtual_memory |-> 0, status |-> NoneV, updated |-> TRUE]

\* Process::new_with / new_with2 (sys::process): the field decoded stands for
\* exe, name, cmd, environ and root, which the constructor is given; it tells
\* where they came from
new_with(pid, parent, from) == [NewProcess(pid, parent) EXCEPT !.decoded = from]

\* force_update (sys::process)
force_update(p) == [p EXCEPT !.updated = TRUE]

\* compute_cpu_usage (sys::process): stores the sample and marks the entry
compute_cpu_usage(p) == [p EXCEPT !.updated = TRUE]

\* has_been_updated (sys::process): returns the marker and clears it
has_been_updated(p) == p.updated
clear_updated(p) == [p EXCEPT !.updated = FALSE]

\* i32::from_str_radix(token, 10) on the tokens ps can print here
ParseInt(tok) ==
    CASE tok = "0" -> [ok |-> TRUE, v |-> 0]
      [] tok = "1" -> [ok |-> TRUE, v |-> 1]
      [] OTHER -> [ok |-> FALSE, v |-> 0]

NoProcess == [pid |-> 0, parent |-> 0, decoded |-> NoneV, process_status |-> NoneV,
              memory |-> 0, virtual_memory |-> 0,
              status |-> NoneV, updated |-> FALSE]
Err == [tag |-> "Err", p |-> NoProcess]
OkNone == [tag |-> "OkNone", p |-> NoProcess]
OkSome(p) == [tag |-> "OkSome", p |-> p]
Pending == [tag |-> "Pending", p |-> NoProcess]

Kind(tbl, pid) ==
    IF pid \notin DOMAIN tbl THEN "absent"
    ELSE IF tbl[pid].memory = 0 THEN "zero" ELSE "nonzero"

\* --------------------------------------------------------- update_process
\* lines 344-548: the PID is not in the table
NewPidPath(pid, k) ==
    IF ~k.taskall.ok
    THEN \* lines 353-391: fallback on /bin/ps
         IF ~k.ps.ok THEN [res |-> Err, queries |-> {"taskallinfo", "ps"}]
         ELSE IF Len(k.ps.out) < 2 THEN [res |-> Err, queries |-> {"taskallinfo", "ps"}]
         ELSE IF ~ParseInt(k.ps.out[1]).ok
              THEN [res |-> Err, queries |-> {"taskallinfo", "ps"}]
         ELSE LET p == ParseInt(k.ps.out[1]).v
              IN  [res |-> OkSome(new_with(pid, OptPid(p), "ps")),
                   queries |-> {"taskallinfo", "ps"}]
    ELSE \* lines 394-547: decode of the argument buffer
         IF k.args = "fail"
         THEN [res |-> Err, queries |-> {"taskallinfo", "procargs2"}]
         ELSE LET parent == OptPid(k.taskall.ppid)
                  p == new_with(pid, parent, "procargs2")
              IN  [res |-> OkSome([p EXCEPT
                          !.process_status = "pbi_status",
                          !.memory = k.taskall.ptinfo.resident \div 1024,
                          !.virtual_memory = k.taskall.ptinfo.virtual \div 1024]),
                   queries |-> {"taskallinfo", "procargs2"}]

\* UpdateLookup without the memory == 0 test of line 317
UpdateLookupNoZeroTest(tbl, pid, k) ==
    IF pid \in DOMAIN tbl
    THEN [tbl |-> [tbl EXCEPT ![pid].status = k.thread], res |-> Pending,
          queries |-> {"threadinfo"}]
    ELSE LET n == NewPidPath(pid, k)
         IN  [tbl |-> tbl, res |-> n.res, queries |-> {"threadinfo"} \cup n.queries]

\* UpdateLookup failing on an entry with memory 0
UpdateLookupZeroFails(tbl, pid, k) ==
    IF pid \in DOMAIN tbl
    THEN IF tbl[pid].memory = 0
         THEN [tbl |-> tbl, res |-> Err, queries |-> {"threadinfo"}]
         ELSE [tbl |-> [tbl EXCEPT ![pid].status = k.thread], res |-> Pending,
               queries |-> {"threadinfo"}]
    ELSE LET n == NewPidPath(pid, k)
         IN  [tbl |-> tbl, res |-> n.res, queries |-> {"threadinfo"} \cup n.queries]

\* UpdateLookup returning the descriptor of an entry with memory 0
UpdateLookupReturnsEntry(tbl, pid, k) ==
    IF pid \in DOMAIN tbl
    THEN IF tbl[pid].memory = 0
         THEN [tbl |-> [tbl EXCEPT ![pid] = force_update(@)],
               res |-> OkSome(NewProcess(pid, tbl[pid].parent)),
               queries |-> {"threadinfo"}]
         ELSE [tbl |-> [tbl EXCEPT ![pid].status = k.thread], res |-> Pending,
               queries |-> {"threadinfo"}]
    ELSE LET n == NewPidPath(pid, k)
         IN  [tbl |-> tbl, res |-> n.res, queries |-> {"threadinfo"} \cup n.queries]

\* UpdateLookup inserting a new descriptor itself instead of returning it
UpdateLookupInserts(tbl, pid, k) ==
    IF pid \in DOMAIN tbl
    THEN IF tbl[pid].memory = 0
         THEN [tbl |-> [tbl EXCEPT ![pid] = force_update(@)], res |-> OkNone,
               queries |-> {"threadinfo"}]
         ELSE [tbl |-> [tbl EXCEPT ![pid].status = k.thread], res |-> Pending,
               queries |-> {"threadinfo"}]
    ELSE LET n == NewPidPath(pid, k)
         IN  [tbl |-> IF n.res.tag = "OkSome"
                      THEN [q \in (DOMAIN tbl) \cup {pid} |->
                              IF q = pid THEN n.res.p ELSE tbl[q]]
                      ELSE tbl,
              res |-> n.res, queries |-> {"threadinfo"} \cup n.queries]

\* lines 297-322 and 344-548: thread query, lookup of the PID, and everything
\* up to the first point where an existing entry has been written
UpdateLookup(tbl, pid, k) ==
    IF pid \in DOMAIN tbl
    THEN IF tbl[pid].memory = 0
         THEN \* lines 317-321
              [tbl |-> [tbl EXCEPT ![pid] = force_update(@)], res |-> OkNone,
               queries |-> {"threadinfo"}]
         ELSE \* line 322
              [tbl |-> [tbl EXCEPT ![pid].status = k.thread], res |-> Pending,
               queries |-> {"threadinfo"}]
    ELSE LET n == NewPidPath(pid, k)
         IN  [tbl |-> tbl, res |-> n.res, queries |-> {"threadinfo"} \cup n.queries]

\* an incremental update that also stores a parent id anew
UpdateTaskResetsParent(tbl, pid, k) ==
    IF ~k.task.ok
    THEN [tbl |-> tbl, res |-> Err, queries |-> {"taskinfo"}]
    ELSE [tbl |-> [tbl EXCEPT ![pid] =
                     [compute_cpu_usage(@) EXCEPT
                        !.parent = 0,
                        !.memory = k.task.resident \div 1024,
                        !.virtual_memory = k.task.virtual \div 1024]],
          res |-> OkNone, queries |-> {"taskinfo"}]

\* lines 323-341: the incremental update of an existing entry
UpdateTask(tbl, pid, k) ==
    IF ~k.task.ok
    THEN [tbl |-> tbl, res |-> Err, queries |-> {"taskinfo"}]
    ELSE [tbl |-> [tbl EXCEPT ![pid] =
                     [compute_cpu_usage(@) EXCEPT
                        !.memory = k.task.resident \div 1024,
                        !.virtual_memory = k.task.virtual \div 1024]],
          res |-> OkNone, queries |-> {"taskinfo"}]

\* lines 288-549: update_process as one call
UpdateProcess(tbl, pid, k) ==
    LET a == UpdateLookup(tbl, pid, k)
    IN  IF a.res = Pending
        THEN LET b == UpdateTask(a.tbl, pid, k)
             IN  [tbl |-> b.tbl, res |-> b.res, queries |-> a.queries \cup b.queries]
        ELSE a

\* HashMap::insert
Insert(tbl, p) ==
    [q \in (DOMAIN tbl) \cup {p.pid} |-> IF q = p.pid THEN p ELSE tbl[q]]

\* lines 614-625: System::clear_procs
clear_procs(tbl) ==
    LET keep == {q \in DOMAIN tbl : has_been_updated(tbl[q])}
    IN  [q \in keep |-> clear_updated(tbl[q])]

\* ---------------------------------------------------------------- get_proc_list
RECURSIVE SortedSeq(_)
SortedSeq(S) ==
    IF S = {} THEN << >>
    ELSE LET m == CHOOSE x \in S : \A y \in S : x <= y
         IN  <<m>> \o SortedSeq(S \ {m})

\* lines 551-571: count is the answer to the sizing call, live the PIDs the
\* kernel has; the kernel writes at most count of them
get_proc_list(count, live) ==
    IF count < 1 THEN [some |-> FALSE, v |-> << >>]
    ELSE LET x == IF Cardinality(live) < count THEN Cardinality(live) ELSE count
         IN  IF x < 1 \/ x >= count THEN [some |-> FALSE, v |-> << >>]
             ELSE [some |-> TRUE, v |-> SortedSeq(live)]

Idle == phase = "idle"
NoCall == [op |-> "none", pid |-> 0, pre |-> "absent", dead |-> FALSE,
           queries |-> {}, ret |-> NoneV]

\* ------------------------------------------------------ refresh_process
\* a refresh_process that ends with the sweep
refresh_process_sweeps(pid) ==
    /\ Idle
    /\ \E k \in KernelAnswers(Kind(process_list, pid)) :
         LET u == UpdateProcess(process_list, pid, k)
         IN  /\ process_list' = clear_procs(
                  IF u.res.tag = "OkSome" THEN Insert(u.tbl, u.res.p) ELSE u.tbl)
             /\ last' = [op |-> "refresh_process", pid |-> pid,
                         pre |-> Kind(process_list, pid), dead |-> k = DeadKernel,
                         queries |-> u.queries, ret |-> IF u.res.tag # "Err" THEN "true" ELSE "false"]
    /\ UNCHANGED <<phase, pids, wpc, wres, entries>>
    /\ UNCHANGED <<dvars, pvars, bvars, cvars, mvars>>

\* lines 874-900
refresh_process(pid) ==
    /\ Idle
    /\ \E k \in KernelAnswers(Kind(process_list, pid)) :
         LET u == UpdateProcess(process_list, pid, k)
         IN  /\ process_list' =
                  IF u.res.tag = "OkSome" THEN Insert(u.tbl, u.res.p) ELSE u.tbl
             /\ last' = [op |-> "refresh_process", pid |-> pid,
                         pre |-> Kind(process_list, pid), dead |-> k = DeadKernel,
                         queries |-> u.queries, ret |-> IF u.res.tag # "Err" THEN "true" ELSE "false"]
    /\ UNCHANGED <<phase, pids, wpc, wres, entries>>
    /\ UNCHANGED <<dvars, pvars, bvars, cvars, mvars>>

\* ---------------------------------------------------- refresh_processes
\* lines 837 and 841: the sizing call answers count, then get_proc_list runs
\* with the answer count2 of its own sizing call and the PIDs live
Enumeration(count, count2, live) ==
    IF count < 1 THEN [some |-> FALSE, v |-> << >>] ELSE get_proc_list(count2, live)

\* the sets of live PIDS for which some answers of the sizing calls make the
\* enumeration give a list
Listable ==
    {live \in SUBSET PIDS :
        \E count \in 0..MaxCount, count2 \in 0..MaxCount :
           Enumeration(count, count2, live).some}

\* some answers of the kernel make the enumeration give no list
Unlistable ==
    {c \in (0..MaxCount) \X (0..MaxCount) \X (SUBSET PIDS) :
        ~Enumeration(c[1], c[2], c[3]).some}

\* where the enumeration stops for the answers c: the sizing call of line 837
\* or of line 552 answers less than 1, or the listing call of line 561 answers
\* less than 1, or it fills the whole vector (line 563)
AbandonedAt(c) ==
    IF c[1] < 1 THEN "sizing"
    ELSE IF c[2] < 1 THEN "sizing2"
    ELSE IF Cardinality(c[3]) < 1 THEN "empty"
    ELSE "full"
AbandonReasons == {AbandonedAt(c) : c \in Unlistable}

\* an abandoned cycle that still runs the sweep
AbandonCycleSweeps ==
    /\ Idle
    /\ \E r \in AbandonReasons : last' = [NoCall EXCEPT !.op = "abandoned", !.ret = r]
    /\ process_list' = clear_procs(process_list)
    /\ UNCHANGED <<phase, pids, wpc, wres, entries>>
    /\ UNCHANGED <<dvars, pvars, bvars, cvars, mvars>>

\* lines 836-841 and 871-872: the enumeration gives no list, the call returns
AbandonCycle ==
    /\ Idle
    /\ \E r \in AbandonReasons : last' = [NoCall EXCEPT !.op = "abandoned", !.ret = r]
    /\ UNCHANGED <<process_list, phase, pids, wpc, wres, entries>>
    /\ UNCHANGED <<dvars, pvars, bvars, cvars, mvars>>

\* lines 836-849: the enumeration gives a list, the par_iter starts on it
BeginCycle ==
    /\ Idle
    /\ \E live \in Listable :
         /\ LET c == CHOOSE c \in (0..MaxCount) \X (0..MaxCount) :
                        Enumeration(c[1], c[2], live).some
                got == Enumeration(c[1], c[2], live).v
            IN  /\ pids' = got
                /\ wpc' = [i \in 1..Len(got) |-> "start"]
                /\ wres' = [i \in 1..Len(got) |-> Pending]
    /\ phase' = "parallel"
    /\ entries' = << >>
    /\ last' = [NoCall EXCEPT !.op = "enumerated"]
    /\ UNCHANGED process_list
    /\ UNCHANGED <<dvars, pvars, bvars, cvars, mvars>>

\* lines 849-864, first part of one work unit (update_process up to line 322)
WorkerLookup(i) ==
    /\ phase = "parallel"
    /\ i \in DOMAIN wpc
    /\ wpc[i] = "start"
    /\ \E k \in {a \in KernelAnswers(Kind(process_list, pids[i])) : a.task = TaskInfoFail} :
         LET u == UpdateLookup(process_list, pids[i], k)
         IN  /\ process_list' = u.tbl
             /\ wres' = [wres EXCEPT ![i] = u.res]
             /\ wpc' = [wpc EXCEPT ![i] = IF u.res = Pending THEN "task" ELSE "done"]
             /\ last' = [op |-> "update_process", pid |-> pids[i],
                         pre |-> Kind(process_list, pids[i]), dead |-> FALSE,
                         queries |-> u.queries, ret |-> u.res.tag]
    /\ UNCHANGED <<phase, pids, entries>>
    /\ UNCHANGED <<dvars, pvars, bvars, cvars, mvars>>

\* second part of one work unit (update_process lines 323-341)
WorkerTask(i) ==
    /\ phase = "parallel"
    /\ i \in DOMAIN wpc
    /\ wpc[i] = "task"
    /\ \E k \in {a \in KernelAnswers("nonzero") : a.thread = process_list[pids[i]].status} :
         LET u == UpdateTask(process_list, pids[i], k)
         IN  /\ process_list' = u.tbl
             /\ wres' = [wres EXCEPT ![i] = u.res]
             /\ wpc' = [wpc EXCEPT ![i] = "done"]
             /\ last' = [op |-> "update_process", pid |-> pids[i],
                         pre |-> "nonzero", dead |-> FALSE,
                         queries |-> {"threadinfo"} \cup u.queries, ret |-> u.res.tag]
    /\ UNCHANGED <<phase, pids, entries>>
    /\ UNCHANGED <<dvars, pvars, bvars, cvars, mvars>>

RECURSIVE CollectedUntilErr(_, _)
\* a collect that stops at the first Err
CollectedUntilErr(res, i) ==
    IF i > Len(res) \/ res[i].tag = "Err" THEN << >>
    ELSE (IF res[i].tag = "OkSome" THEN <<res[i].p>> ELSE << >>)
         \o CollectedUntilErr(res, i + 1)

RECURSIVE Collected(_, _)
\* lines 849-865: flat_map over the results, collected in the order of pids
Collected(res, i) ==
    IF i > Len(res) THEN << >>
    ELSE (IF res[i].tag = "OkSome" THEN <<res[i].p>> ELSE << >>)
         \o Collected(res, i + 1)

\* a collect that returns as soon as one work unit has returned
AnyDone == \E i \in DOMAIN wpc : wpc[i] = "done"

\* line 865: collect() returns once every work unit has returned
AllDone == \A i \in DOMAIN wpc : wpc[i] = "done"

\* lines 847-866: the end of the parallel phase
Collect ==
    /\ phase = "parallel"
    /\ AllDone
    /\ entries' = Collected(wres, 1)
    /\ phase' = "merge"
    /\ last' = [NoCall EXCEPT !.op = "collect"]
    /\ UNCHANGED <<process_list, pids, wpc, wres>>
    /\ UNCHANGED <<dvars, pvars, bvars, cvars, mvars>>

\* lines 867-869: one iteration of the for_each
MergeOne ==
    /\ phase = "merge"
    /\ entries # << >>
    /\ process_list' = Insert(process_list, Head(entries))
    /\ entries' = Tail(entries)
    /\ last' = [NoCall EXCEPT !.op = "insert", !.pid = Head(entries).pid]
    /\ UNCHANGED <<phase, pids, wpc, wres>>
    /\ UNCHANGED <<dvars, pvars, bvars, cvars, mvars>>

\* line 870: the liveness sweep
Sweep ==
    /\ phase = "merge"
    /\ entries = << >>
    /\ process_list' = clear_procs(process_list)
    /\ phase' = "swept"
    /\ wpc' = << >>
    /\ wres' = << >>
    /\ last' = [NoCall EXCEPT !.op = "clear_procs"]
    /\ UNCHANGED <<pids, entries>>
    /\ UNCHANGED <<dvars, pvars, bvars, cvars, mvars>>

\* lines 871-872: refresh_processes returns, pids is dropped
EndCycle ==
    /\ phase = "swept"
    /\ phase' = "idle"
    /\ pids' = << >>
    /\ last' = [NoCall EXCEPT !.op = "returned"]
    /\ UNCHANGED <<process_list, wpc, wres, entries>>
    /\ UNCHANGED <<dvars, pvars, bvars, cvars, mvars>>

TNext ==
    \/ \E pid \in PIDS : refresh_process(pid)
    \/ AbandonCycle
    \/ BeginCycle
    \/ \E i \in 1..MaxPid : WorkerLookup(i)
    \/ \E i \in 1..MaxPid : WorkerTask(i)
    \/ Collect
    \/ MergeOne
    \/ Sweep
    \/ EndCycle

\* =============================================== the disk-type cache
NumCallers == 2
MaxCalls == 2
Callers == 1..NumCallers

SSD == [kind |-> "SSD", code |-> 0]
Unknown(c) == [kind |-> "Unknown", code |-> c]

EmptyTable == [n \in {} |-> SSD]
NoTable == [some |-> FALSE, v |-> EmptyTable]
SomeTable(t) == [some |-> TRUE, v |-> t]

\* the IOMedia registry as the enumeration finds it: whether
\* IOServiceGetMatchingServices succeeds, and the media it iterates over
Medium(name, whole, raid) ==
    [name |-> name, props |-> TRUE, whole |-> whole, raid |-> raid, named |-> TRUE]
Registries ==
    {[ok |-> FALSE, media |-> << >>],
     [ok |-> TRUE, media |-> <<Medium("disk0", TRUE, FALSE), Medium("disk0s1", FALSE, FALSE)>>],
     [ok |-> TRUE, media |-> <<Medium("disk0", TRUE, FALSE), Medium("disk1", TRUE, TRUE)>>]}

\* an insert that gives a RAID medium the code of a name not indexed
InsertMediumRaidNotIndexed(ret, m) ==
    [n \in (DOMAIN ret) \cup {m.name} |->
        IF n = m.name THEN (IF m.raid THEN Unknown(-2) ELSE SSD) ELSE ret[n]]

\* lines 95-102: HashMap::insert of one whole medium
InsertMedium(ret, m) ==
    [n \in (DOMAIN ret) \cup {m.name} |->
        IF n = m.name THEN (IF m.raid THEN Unknown(-1) ELSE SSD) ELSE ret[n]]

RECURSIVE MediaLoop(_, _, _)
\* lines 77-107: the loop over IOIteratorNext
MediaLoop(ret, media, i) ==
    IF i > Len(media) THEN ret
    ELSE LET m == media[i]
         IN  IF m.props /\ m.whole /\ m.named
             THEN MediaLoop(InsertMedium(ret, m), media, i + 1)
             ELSE MediaLoop(ret, media, i + 1)

\* lines 58-111
get_disk_types(reg) ==
    IF ~reg.ok THEN EmptyTable ELSE MediaLoop(EmptyTable, reg.media, 1)

\* lines 218-232: the entries of /Volumes, and the type the callback of
\* get_disks gives to one of them
Volumes == {"disk0", "disk1", "Data"}
TypeOf(disk_types, name) ==
    IF name \in DOMAIN disk_types THEN disk_types[name] ELSE Unknown(-2)

\* line 44: self.0.borrow().is_none()
CheckNone(t) ==
    /\ dpc[t] = "idle"
    /\ ncalls[t] < MaxCalls
    /\ ncalls' = [ncalls EXCEPT ![t] = @ + 1]
    /\ dpc' = [dpc EXCEPT ![t] = IF DISK_TYPES.some THEN "borrow" ELSE "enumerate"]
    /\ UNCHANGED <<DISK_TYPES, dlocal, dseen, enumerations, enum_log>>
    /\ UNCHANGED <<tvars, pvars, bvars, cvars, mvars>>

\* line 45, right-hand side: the call of get_disk_types()
Enumerate(t) ==
    /\ dpc[t] = "enumerate"
    /\ \E reg \in Registries :
          /\ dlocal' = [dlocal EXCEPT ![t] = get_disk_types(reg)]
          /\ enum_log' = Append(enum_log, reg.ok)
    /\ enumerations' = enumerations + 1
    /\ dpc' = [dpc EXCEPT ![t] = "publish"]
    /\ UNCHANGED <<DISK_TYPES, dseen, ncalls>>
    /\ UNCHANGED <<tvars, pvars, bvars, cvars, mvars>>

\* a shared borrow of the RefCell is held by another caller (its callback runs)
BorrowedByOther(t) == \E u \in Callers : u # t /\ dpc[u] = "callback"

\* line 45, the assignment through borrow_mut(). The borrow flag of the RefCell
\* is read and written without synchronisation (unsafe impl Sync, line 54), so
\* with a shared borrow outstanding the store either goes through or panics.
Publish(t) ==
    /\ dpc[t] = "publish"
    /\ \/ /\ DISK_TYPES' = SomeTable(dlocal[t])
          /\ dpc' = [dpc EXCEPT ![t] = "borrow"]
       \/ /\ BorrowedByOther(t)
          /\ dpc' = [dpc EXCEPT ![t] = "panicked"]
          /\ UNCHANGED DISK_TYPES
    /\ UNCHANGED <<dlocal, dseen, ncalls, enumerations, enum_log>>
    /\ UNCHANGED <<tvars, pvars, bvars, cvars, mvars>>

\* lines 47-48: borrow() and the start of callback(x)
Borrow(t) ==
    /\ dpc[t] = "borrow"
    /\ DISK_TYPES.some
    /\ dseen' = [dseen EXCEPT ![t] = DISK_TYPES]
    /\ dpc' = [dpc EXCEPT ![t] = "callback"]
    /\ UNCHANGED <<DISK_TYPES, dlocal, ncalls, enumerations, enum_log>>
    /\ UNCHANGED <<tvars, pvars, bvars, cvars, mvars>>

\* lines 48-51: the callback returns and the borrow is released
Return(t) ==
    /\ dpc[t] = "callback"
    /\ dpc' = [dpc EXCEPT ![t] = "idle"]
    /\ UNCHANGED <<DISK_TYPES, dlocal, dseen, ncalls, enumerations, enum_log>>
    /\ UNCHANGED <<tvars, pvars, bvars, cvars, mvars>>

DNext ==
    \/ \E t \in Callers : CheckNone(t)
    \/ \E t \in Callers : Enumerate(t)
    \/ \E t \in Callers : Publish(t)
    \/ \E t \in Callers : Borrow(t)
    \/ \E t \in Callers : Return(t)

\* ================================================ parse_command_line
\* strings are sequences of characters
SQ == "'"
DQ == "\""
SP == " "

\* str::starts_with(char), str::ends_with(char)
StartsWith(s, c) == Len(s) >= 1 /\ s[1] = c
EndsWith(s, c) == Len(s) >= 1 /\ s[Len(s)] = c

RECURSIVE Join(_, _)
\* [T]::join(sep)
Join(ts, sep) ==
    IF ts = << >> THEN << >>
    ELSE IF Len(ts) = 1 THEN ts[1]
    ELSE ts[1] \o <<sep>> \o Join(Tail(ts), sep)

RECURSIVE ScanClose(_, _, _)
\* lines 270-272: y advances to the first token that ends with c, or to the end
ScanClose(ts, y, c) ==
    IF y <= Len(ts) /\ ~EndsWith(ts[y], c) THEN ScanClose(ts, y + 1, c) ELSE y

RECURSIVE ParseFrom(_, _)
\* lines 266-279: the loop on x (x and y count from 1 here, so cmd[x..y] of the
\* source is SubSeq(ts, x, y - 1))
ParseFrom(ts, x) ==
    IF x > Len(ts) THEN << >>
    ELSE IF StartsWith(ts[x], SQ) \/ StartsWith(ts[x], DQ)
         THEN LET c == IF StartsWith(ts[x], SQ) THEN SQ ELSE DQ
                  y == ScanClose(ts, x, c)
              IN  <<Join(SubSeq(ts, x, y - 1), SP)>> \o ParseFrom(ts, y + 1)
         ELSE <<ts[x]>> \o ParseFrom(ts, x + 1)

\* lines 263-281
parse_command_line(ts) == ParseFrom(ts, 1)

MaxTokens == 3
\* the tokens given to parse_command_line
Tokens ==
    {<<"a">>, <<SQ, "a">>, <<"a", SQ>>, <<SQ, "a", SQ>>, <<DQ, "a">>, <<"a", DQ>>,
     <<SQ>>}
\* cmd 'hello world'
HelloTokens ==
    <<<<"c", "m", "d">>, <<SQ, "h", "e", "l", "l", "o">>, <<"w", "o", "r", "l", "d", SQ>>>>
TokenSeqs ==
    {HelloTokens} \cup UNION {[1..n -> Tokens] : n \in 0..MaxTokens}

\* the call of parse_command_line on cmd
Parse ==
    /\ ppc = "ready"
    /\ command' = parse_command_line(cmd)
    /\ ppc' = "done"
    /\ UNCHANGED cmd
    /\ UNCHANGED <<tvars, dvars, bvars, cvars, mvars>>

PNext == Parse

\* ============================== decode of the KERN_PROCARGS2 buffer
NUL == "NUL"
MaxArgc == 2
MaxArgs == 2
MaxEnvs == 2

S_usr_bin_foo == <<"/", "u", "s", "r", "/", "b", "i", "n", "/", "f", "o", "o">>
S_foo == <<"f", "o", "o">>
S_bar_baz == <<"b", "a", "r", SP, "b", "a", "z">>
S_PATH == <<"P", "A", "T", "H", "=">>
S_opt_x == <<"/", "o", "p", "t", "/", "x">>

ExePaths == {S_usr_bin_foo, S_foo, <<"/", "f">>}
ArgStrings == {S_foo, S_bar_baz, <<SQ, "a", SQ>>, <<SQ, "b">>}
EnvStrings == {S_PATH \o S_opt_x, S_PATH, <<"A", "=", "1">>}
Paddings == {1, 3}
Cuts == {0, 1}

RECURSIVE Terminated(_)
\* the strings of ss, each followed by its NUL
Terminated(ss) ==
    IF ss = << >> THEN << >> ELSE Head(ss) \o <<NUL>> \o Terminated(Tail(ss))

\* the bytes after the argc header as the kernel lays them out (lines 403-432):
\* path, its NUL and padding, the argument strings, the environment strings;
\* cut bytes are missing at the end when the buffer is too small
Layout(exe, pad, args, envs, cut) ==
    LET all == exe \o [i \in 1..pad |-> NUL] \o Terminated(args) \o Terminated(envs)
    IN  SubSeq(all, 1, Len(all) - cut)

Buffers ==
    {[n_args |-> 0, data |-> << >>]} \cup
    {[n_args |-> n, data |-> Layout(exe, pad, args, envs, cut)] :
        n \in (-1)..MaxArgc, exe \in ExePaths, pad \in Paddings,
        args \in UNION {[1..k -> ArgStrings] : k \in 0..MaxArgs},
        envs \in UNION {[1..k -> EnvStrings] : k \in 0..MaxEnvs},
        cut \in Cuts}

\* get_unchecked_str(cp, start) (sys::process): the bytes of [start, cp)
get_unchecked_str(data, cp, start) == SubSeq(data, start, cp - 1)

RECURSIVE ScanToNul(_, _)
\* lines 455-457
ScanToNul(data, cp) ==
    IF cp <= Len(data) /\ data[cp] # NUL THEN ScanToNul(data, cp + 1) ELSE cp

RECURSIVE SkipNuls(_, _)
\* lines 465-467
SkipNuls(data, cp) ==
    IF cp <= Len(data) /\ data[cp] = NUL THEN SkipNuls(data, cp + 1) ELSE cp

RECURSIVE ArgLoop(_, _, _, _, _, _)
\* lines 471-478
ArgLoop(data, n_args, c, cp, start, acc) ==
    IF c < n_args /\ cp <= Len(data)
    THEN IF data[cp] = NUL
         THEN ArgLoop(data, n_args, c + 1, cp + 1, cp + 1,
                      Append(acc, get_unchecked_str(data, cp, start)))
         ELSE ArgLoop(data, n_args, c, cp + 1, start, acc)
    ELSE [cmd |-> acc, cp |-> cp]

\* str::starts_with(&str)
HasPrefix(s, pre) == Len(s) >= Len(pre) /\ SubSeq(s, 1, Len(pre)) = pre

\* lines 483-488: env[6..] panics when env has fewer than 6 bytes
do_something(env, st) ==
    IF st.check /\ HasPrefix(env, S_PATH)
    THEN IF Len(env) < 6
         THEN [st EXCEPT !.check = FALSE, !.panicked = TRUE]
         ELSE [st EXCEPT !.check = FALSE, !.root = SubSeq(env, 7, Len(env))]
    ELSE st

\* a do_nothing that looks at PATH= like do_something
do_nothing_reads_path(env, st) == do_something(env, st)

\* line 481
do_nothing(env, st) == st

RECURSIVE EnvLoop(_, _, _, _, _)
\* lines 501-512; st holds environ, root, check, and whether the callback
\* panicked; something tells which of the two callbacks was passed
EnvLoop(data, cp, start, st, something) ==
    IF cp <= Len(data) /\ ~st.panicked
    THEN IF data[cp] = NUL
         THEN IF cp = start THEN st
              ELSE LET e == get_unchecked_str(data, cp, start)
                       s1 == IF something THEN do_something(e, st) ELSE do_nothing(e, st)
                       s2 == [s1 EXCEPT !.environ = Append(@, e)]
                   IN  EnvLoop(data, cp + 1, cp + 1, s2, something)
         ELSE EnvLoop(data, cp + 1, start, st, something)
    ELSE st

\* lines 491-514
get_environ(data, cp, root, something) ==
    EnvLoop(data, cp, cp,
            [environ |-> << >>, root |-> root, check |-> TRUE, panicked |-> FALSE],
            something)

\* std::path::Path on the paths used here
RECURSIVE TrimSlashes(_)
TrimSlashes(p) ==
    IF Len(p) > 1 /\ p[Len(p)] = "/" THEN TrimSlashes(SubSeq(p, 1, Len(p) - 1)) ELSE p
LastSlash(p) ==
    LET S == {i \in 1..Len(p) : p[i] = "/"}
    IN  IF S = {} THEN 0 ELSE CHOOSE i \in S : \A j \in S : j <= i
\* Path::is_absolute
is_absolute(p) == StartsWith(p, "/")
\* Path::file_name, with None written as the empty string (lines 459-464)
file_name(p) ==
    LET q == TrimSlashes(p)
        comp == SubSeq(q, LastSlash(q) + 1, Len(q))
    IN  IF comp = <<".", ".">> THEN << >> ELSE comp
\* Path::parent of an absolute path: [some, v]
parent(p) ==
    LET q == TrimSlashes(p)
        i == LastSlash(q)
    IN  IF q = <<"/">> \/ q = << >> THEN [some |-> FALSE, v |-> << >>]
        ELSE IF i <= 1 THEN [some |-> TRUE, v |-> SubSeq(q, 1, i)]
        ELSE [some |-> TRUE, v |-> TrimSlashes(SubSeq(q, 1, i - 1))]

\* lines 444-538: the fields of the new descriptor decoded from the buffer
DecodeArgs(buf) ==
    LET data == buf.data
    IN  IF Len(data) < 1
        THEN \* line 537: Process::new
             [exe |-> << >>, name |-> << >>, cmd |-> << >>, environ |-> << >>,
              root |-> << >>, panicked |-> FALSE]
        ELSE IF buf.n_args < 0
        THEN \* line 470: Vec::with_capacity(n_args as usize) panics with
             \* "capacity overflow" on the wrapped value
             [exe |-> get_unchecked_str(data, ScanToNul(data, 1), 1),
              name |-> file_name(get_unchecked_str(data, ScanToNul(data, 1), 1)),
              cmd |-> << >>, environ |-> << >>, root |-> << >>, panicked |-> TRUE]
        ELSE LET cp1 == ScanToNul(data, 1)
                 exe == get_unchecked_str(data, cp1, 1)
                 name == file_name(exe)
                 cp2 == SkipNuls(data, cp1)
                 a == ArgLoop(data, buf.n_args, 0, cp2, cp2, << >>)
                 something == ~(is_absolute(exe) /\ parent(exe).some)
                 root == IF something THEN << >> ELSE parent(exe).v
                 e == get_environ(data, a.cp, root, something)
             IN  [exe |-> exe, name |-> name,
                  cmd |-> IF e.panicked THEN << >> ELSE parse_command_line(a.cmd),
                  environ |-> e.environ, root |-> e.root, panicked |-> e.panicked]

\* the decode of one buffer
Decode ==
    /\ bpc = "ready"
    /\ decoded' = DecodeArgs(proc_args)
    /\ bpc' = "done"
    /\ UNCHANGED proc_args
    /\ UNCHANGED <<tvars, dvars, pvars, cvars, mvars>>

BNext == Decode

\* ========================================================= refresh_cpu
MaxCpu == 2
MaxCpuCalls == 2

\* f32 values as fractions n/d, d = 0 standing for NaN (0.0 / 0.0); the
\* rounding of f32 is left out
Zero == [n |-> 0, d |-> 1]
NaN == [n |-> 0, d |-> 0]
Ratio(a, b) == IF b = 0 THEN NaN ELSE [n |-> a, d |-> b]
FAdd(a, b) == IF a.d = 0 \/ b.d = 0 THEN NaN ELSE [n |-> a.n * b.d + b.n * a.d, d |-> a.d * b.d]
FDiv(a, k) == IF a.d = 0 THEN NaN ELSE [n |-> a.n, d |-> a.d * k]
FEq(a, b) == IF a.d = 0 \/ b.d = 0 THEN a.d = b.d ELSE a.n * b.d = b.n * a.d

\* the ticks one core spends between two reads of host_processor_info:
\* CPU_STATE_USER + SYSTEM + NICE, and CPU_STATE_IDLE
Loads == {[in_use |-> 0, idle |-> 0], [in_use |-> 0, idle |-> 2],
          [in_use |-> 1, idle |-> 1], [in_use |-> 2, idle |-> 0]}
NoTicks == [in_use |-> 0, idle |-> 0]

\* processor::create_proc (sys::processor): usage 0.0 and the counters given
create_proc(name, data) == [name |-> name, cpu_usage |-> Zero, data |-> data]
\* processor::set_cpu_proc (sys::processor)
set_cpu_proc(p, usage) == [p EXCEPT !.cpu_usage = usage]
\* processor::set_cpu_usage (sys::processor)
set_cpu_usage(p, usage) == [p EXCEPT !.cpu_usage = usage]
\* processor::update_proc (sys::processor)
update_proc(p, usage, data) == [p EXCEPT !.cpu_usage = usage, !.data = data]
\* Processor::get_cpu_usage
get_cpu_usage(p) == p.cpu_usage

\* lines 764-781: the entry of core i made from the counters read
FirstCore(i, info) ==
    LET in_use == info[i].in_use
        total == in_use + info[i].idle
    IN  set_cpu_proc(create_proc(i, info[i]), Ratio(in_use, total))

\* lines 794-819: the entry of core i updated from the counters read
NextCore(proc_, info) ==
    LET old == proc_.data
        new == info[proc_.name]
        in_use == new.in_use - old.in_use
        total == in_use + (new.idle - old.idle)
    IN  update_proc(proc_, Ratio(in_use, total), new)

RECURSIVE Pourcent(_, _)
\* lines 791, 820: pourcent summed over the entries from index i on
Pourcent(procs, i) ==
    IF i > Len(procs) THEN Zero
    ELSE FAdd(get_cpu_usage(procs[i]), Pourcent(procs, i + 1))

\* lines 739-782: the first call; num_cpu is the answer to HW_NCPU (1 when
\* the sysctl fails), info the counters of host_processor_info when it succeeds
FirstRefresh(num_cpu, ok, info) ==
    <<create_proc(0, NoTicks)>> \o
    (IF ok THEN [i \in 1..num_cpu |-> FirstCore(i, info)] ELSE << >>)

\* lines 783-828: a later call
NextRefresh(procs, ok, info) ==
    IF ~ok THEN procs
    ELSE LET upd == [i \in 1..Len(procs) |->
                       IF i = 1 THEN procs[i] ELSE NextCore(procs[i], info)]
         IN  IF Len(upd) > 1
             THEN [upd EXCEPT ![1] = set_cpu_usage(@, FDiv(Pourcent(upd, 2), Len(upd) - 1))]
             ELSE upd

\* the counters the kernel can report for n cores whose previous counters are
\* prev: every core has advanced by one of loads
Counters(n, prev, loads) ==
    {[i \in 1..n |-> [in_use |-> prev[i].in_use + l[i].in_use,
                      idle |-> prev[i].idle + l[i].idle]] : l \in [1..n -> loads]}

\* the counters count from boot: at the first read every core has ticked
BootLoads == {l \in Loads : l.in_use + l.idle > 0}

\* lines 729-830
refresh_cpu ==
    /\ cpu_calls < MaxCpuCalls
    /\ cpu_calls' = cpu_calls + 1
    /\ IF processors = << >>
       THEN \E num_cpu \in 1..MaxCpu, ok \in BOOLEAN :
               \E info \in Counters(num_cpu, [i \in 1..num_cpu |-> NoTicks], BootLoads) :
                  processors' = FirstRefresh(num_cpu, ok, info)
       ELSE \E ok \in BOOLEAN :
               \E info \in Counters(Len(processors) - 1,
                                    [i \in 1..(Len(processors) - 1) |-> processors[i + 1].data],
                                    Loads) :
                  processors' = NextRefresh(processors, ok, info)
    /\ UNCHANGED <<tvars, dvars, pvars, bvars, mvars>>

CNext == refresh_cpu

\* ------------------------------------------------------- refresh_memory
\* u64 is scaled down to the values 0..MaxWord; an unchecked build wraps
\* modulo MaxWord + 1, a build with overflow checks panics instead
MaxWord == 63
\* each page counter of vm_statistics64 ranges over 0..MaxPages
MaxPages == 1
MaxMemCalls == 2

\* line 637: sysconf(_SC_PAGESIZE) >> 10, for pages of 4096 bytes
page_size_kb == 4

\* x >> 10 of lines 664, 665 and 676
Kb(x) == x \div 1024

Wrap(x) == (x + 4 * (MaxWord + 1)) % (MaxWord + 1)

\* sysctl(CTL_VM, VM_SWAPUSAGE): the xsw_usage it fills, in bytes
SwapUsages ==
    {[xsu_total |-> t, xsu_avail |-> a] : t \in {0, 1536, 3072}, a \in {0, 1536, 3072}}

\* the memory that holds every page the counters can count, in KB
FullKb == page_size_kb * 4 * MaxPages

\* sysctl(CTL_HW, HW_MEMSIZE): the byte count it writes
MemSizes == {1024 * FullKb, 1024 * (FullKb + 1) + 512}

\* host_statistics64(HOST_VM_INFO64): the counters read at lines 697-701
Statistics ==
    [active_count : 0..MaxPages, inactive_count : 0..MaxPages,
     wire_count : 0..MaxPages, speculative_count : 0..MaxPages,
     purgeable_count : 0..MaxPages]

\* lines 657-666: the swap fields are written only when the query succeeds
SwapAfter(total, free, ok, xs) ==
    IF ok THEN [swap_total |-> Kb(xs.xsu_total), swap_free |-> Kb(xs.xsu_avail)]
    ELSE [swap_total |-> total, swap_free |-> free]

\* lines 668-677: a failed query leaves mem_total as it was, the shift is
\* applied either way
TotalAfter(total, ok, size) ==
    IF total < 1 THEN Kb(IF ok THEN size ELSE total) ELSE total

\* lines 697-701: active + inactive + wire + speculative - purgeable
UsedPages(stat) ==
    stat.active_count + stat.inactive_count + stat.wire_count
        + stat.speculative_count - stat.purgeable_count

\* lines 696-702: the subtractions that leave the range of u64
Underflows(total, stat) ==
    \/ UsedPages(stat) < 0
    \/ total < Wrap(UsedPages(stat)) * page_size_kb

\* lines 696-702 in a build that wraps
FreeAfter(total, stat) ==
    Wrap(total - Wrap(Wrap(UsedPages(stat)) * page_size_kb))

\* lines 940-942 and 953-955
get_used_memory == Wrap(mem_total - mem_free)
get_used_swap == Wrap(swap_total - swap_free)

\* lines 649-705
refresh_memory ==
    /\ mem_calls < MaxMemCalls
    /\ ~mem_panicked
    /\ mem_calls' = mem_calls + 1
    /\ \E swap_ok \in BOOLEAN, size_ok \in BOOLEAN, stat_ok \in BOOLEAN,
          checks \in BOOLEAN, xs \in SwapUsages, size \in MemSizes,
          stat \in Statistics :
          LET swap == SwapAfter(swap_total, swap_free, swap_ok, xs)
              total == TotalAfter(mem_total, size_ok, size)
          IN /\ xs.xsu_avail <= xs.xsu_total
             /\ swap_total' = swap.swap_total
             /\ swap_free' = swap.swap_free
             /\ mem_total' = total
             /\ IF ~stat_ok
                THEN mem_free' = mem_free /\ mem_panicked' = FALSE
                ELSE IF checks /\ Underflows(total, stat)
                THEN mem_free' = mem_free /\ mem_panicked' = TRUE
                ELSE mem_free' = FreeAfter(total, stat) /\ mem_panicked' = FALSE
    /\ UNCHANGED <<tvars, dvars, pvars, bvars, cvars>>

MNext == refresh_memory

\* ================================================= specifications
\* the process table: refresh_process and refresh_processes
Init ==
    /\ process_list = << >> /\ phase = "idle" /\ pids = << >> /\ wpc = << >>
    /\ wres = << >> /\ entries = << >> /\ last = NoCall
    /\ DISK_TYPES = NoTable /\ dpc = << >> /\ dlocal = << >> /\ dseen = << >>
    /\ ncalls = << >> /\ enumerations = 0 /\ enum_log = << >>
    /\ cmd = << >> /\ command = << >> /\ ppc = "off"
    /\ proc_args = << >> /\ decoded = << >> /\ bpc = "off"
    /\ processors = << >> /\ cpu_calls = 0
    /\ mem_total = 0 /\ mem_free = 0 /\ swap_total = 0 /\ swap_free = 0
    /\ mem_calls = 0 /\ mem_panicked = FALSE

Spec == Init /\ [][TNext]_vars

\* the disk-type cache under concurrent callers
InitDisk ==
    /\ DISK_TYPES = NoTable
    /\ dpc = [t \in Callers |-> "idle"]
    /\ dlocal = [t \in Callers |-> EmptyTable]
    /\ dseen = [t \in Callers |-> NoTable]
    /\ ncalls = [t \in Callers |-> 0]
    /\ enumerations = 0
    /\ enum_log = << >>
    /\ process_list = << >> /\ phase = "off" /\ pids = << >> /\ wpc = << >>
    /\ wres = << >> /\ entries = << >> /\ last = NoCall
    /\ cmd = << >> /\ command = << >> /\ ppc = "off"
    /\ proc_args = << >> /\ decoded = << >> /\ bpc = "off"
    /\ processors = << >> /\ cpu_calls = 0
    /\ mem_total = 0 /\ mem_free = 0 /\ swap_total = 0 /\ swap_free = 0
    /\ mem_calls = 0 /\ mem_panicked = FALSE

SpecDisk == InitDisk /\ [][DNext]_vars

\* parse_command_line on every token slice of the bounds
InitParse ==
    /\ cmd \in TokenSeqs /\ command = << >> /\ ppc = "ready"
    /\ process_list = << >> /\ phase = "off" /\ pids = << >> /\ wpc = << >>
    /\ wres = << >> /\ entries = << >> /\ last = NoCall
    /\ DISK_TYPES = NoTable /\ dpc = << >> /\ dlocal = << >> /\ dseen = << >>
    /\ ncalls = << >> /\ enumerations = 0 /\ enum_log = << >>
    /\ proc_args = << >> /\ decoded = << >> /\ bpc = "off"
    /\ processors = << >> /\ cpu_calls = 0
    /\ mem_total = 0 /\ mem_free = 0 /\ swap_total = 0 /\ swap_free = 0
    /\ mem_calls = 0 /\ mem_panicked = FALSE

SpecParse == InitParse /\ [][PNext]_vars

\* the decode on every buffer of the bounds
InitDecode ==
    /\ proc_args \in Buffers /\ decoded = << >> /\ bpc = "ready"
    /\ process_list = << >> /\ phase = "off" /\ pids = << >> /\ wpc = << >>
    /\ wres = << >> /\ entries = << >> /\ last = NoCall
    /\ DISK_TYPES = NoTable /\ dpc = << >> /\ dlocal = << >> /\ dseen = << >>
    /\ ncalls = << >> /\ enumerations = 0 /\ enum_log = << >>
    /\ cmd = << >> /\ command = << >> /\ ppc = "off"
    /\ processors = << >> /\ cpu_calls = 0
    /\ mem_total = 0 /\ mem_free = 0 /\ swap_total = 0 /\ swap_free = 0
    /\ mem_calls = 0 /\ mem_panicked = FALSE

SpecDecode == InitDecode /\ [][BNext]_vars

\* refresh_cpu from a System that has no processor entry yet
InitCpu ==
    /\ processors = << >> /\ cpu_calls = 0
    /\ process_list = << >> /\ phase = "off" /\ pids = << >> /\ wpc = << >>
    /\ wres = << >> /\ entries = << >> /\ last = NoCall
    /\ DISK_TYPES = NoTable /\ dpc = << >> /\ dlocal = << >> /\ dseen = << >>
    /\ ncalls = << >> /\ enumerations = 0 /\ enum_log = << >>
    /\ cmd = << >> /\ command = << >> /\ ppc = "off"
    /\ proc_args = << >> /\ decoded = << >> /\ bpc = "off"
    /\ mem_total = 0 /\ mem_free = 0 /\ swap_total = 0 /\ swap_free = 0
    /\ mem_calls = 0 /\ mem_panicked = FALSE

SpecCpu == InitCpu /\ [][CNext]_vars

\* refresh_memory from the System built by new_with_specifics (lines 632-635)
InitMem ==
    /\ mem_total = 0 /\ mem_free = 0 /\ swap_total = 0 /\ swap_free = 0
    /\ mem_calls = 0 /\ mem_panicked = FALSE
    /\ process_list = << >> /\ phase = "off" /\ pids = << >> /\ wpc = << >>
    /\ wres = << >> /\ entries = << >> /\ last = NoCall
    /\ DISK_TYPES = NoTable /\ dpc = << >> /\ dlocal = << >> /\ dseen = << >>
    /\ ncalls = << >> /\ enumerations = 0 /\ enum_log = << >>
    /\ cmd = << >> /\ command = << >> /\ ppc = "off"
    /\ proc_args = << >> /\ decoded = << >> /\ bpc = "off"
    /\ processors = << >> /\ cpu_calls = 0

SpecMem == InitMem /\ [][MNext]_vars

\* ================================================================ claims
\* C3: get_disk_types() is invoked at most once whatever the number of callers,
\* and every callback runs on the same published table.
C3_EnumeratedOnce ==
    /\ enumerations <= 1
    /\ \A t, u \in Callers : (dseen[t].some /\ dseen[u].some) => dseen[t] = dseen[u]

Enumerated == {pids[i] : i \in DOMAIN pids}
Handled(l) == l.op \in {"refresh_process", "update_process"}

\* C1: a completed refresh_processes cycle leaves no entry whose PID was
\* absent from the PID set enumerated in that cycle.
C1_SweepRemovesUnenumerated ==
    last.op = "clear_procs" => \A q \in DOMAIN process_list : q \in Enumerated

\* C2: the sweep of a cycle never removes an entry whose PID was enumerated in
\* that cycle, whatever the outcome of the per-PID queries.
C2_SweepKeepsEnumerated ==
    [][(phase = "merge" /\ phase' = "swept") =>
          \A q \in DOMAIN process_list :
             q \in Enumerated => q \in DOMAIN process_list']_vars

C5_DeadPidReportsFailure ==
    (last.op = "refresh_process" /\ last.dead) =>
        /\ last.ret = "false"
        /\ last.pre = "absent" => last.pid \notin DOMAIN process_list

\* C6: in the parallel phase no two work units are writing the same entry at
\* the same time, and no step of the parallel phase changes the key set of
\* the table.
C6_OwnKeyOnly ==
    [][/\ \A i, j \in DOMAIN wpc' :
            (i # j /\ wpc'[i] = "task" /\ wpc'[j] = "task") => pids'[i] # pids'[j]
       /\ phase = "parallel" => DOMAIN process_list' = DOMAIN process_list]_vars

C6_Witness ==
    /\ phase = "parallel"
    /\ \E i, j \in DOMAIN wpc : i # j /\ wpc[i] = "task" /\ wpc[j] = "task"

\* C7: in a cycle a new descriptor enters the table only after every work
\* unit of the cycle has returned, and the sweep runs only after every new
\* descriptor of the cycle has been inserted.
C7_BarrierBeforeMerge ==
    [][/\ (phase \in {"parallel", "merge"} /\
           \E i \in DOMAIN wres :
              /\ wres[i].tag = "OkSome"
              /\ pids[i] \notin DOMAIN process_list
              /\ pids[i] \in DOMAIN process_list')
          => \A i \in DOMAIN wpc : wpc[i] = "done"
       /\ (phase \in {"parallel", "merge"} /\ phase' = "swept")
          => /\ entries = << >>
             /\ \A i \in DOMAIN wres :
                   wres[i].tag = "OkSome" => pids[i] \in DOMAIN process_list]_vars

C7_Witness ==
    /\ phase = "merge"
    /\ last.op = "insert"
    /\ entries = << >>
    /\ Len(pids) >= 2
    /\ \A i \in DOMAIN wpc : wpc[i] = "done"
    /\ \E i, j \in DOMAIN wres : wres[i].tag = "OkSome" /\ wres[j].tag = "OkNone"
    /\ \A i \in DOMAIN pids : wres[i].tag = "OkSome" => pids[i] \in DOMAIN process_list

IsQuote(ch) == ch = SQ \/ ch = DQ
\* a token that opens a quotation with c and does not close it
Opens(t, c) == Len(t) >= 2 /\ t[1] = c /\ t[Len(t)] # c
\* a token that closes a quotation with c
Closes(t, c) == Len(t) >= 2 /\ t[Len(t)] = c /\ ~IsQuote(t[1])
Unquoted(s) == SubSeq(s, 2, Len(s) - 1)

\* C8: a token beginning with a quote is merged with the following tokens up
\* to and including the one that ends with the matching quote, joined by
\* spaces and without the quotes: cmd 'hello world' gives [cmd, hello world].
C8_QuoteMerge ==
    (/\ ppc = "done"
     /\ Len(cmd) = 3
     /\ ~IsQuote(cmd[1][1])
     /\ \E c \in {SQ, DQ} : Opens(cmd[2], c) /\ Closes(cmd[3], c))
    => command = <<cmd[1], Unquoted(cmd[2] \o <<SP>> \o cmd[3])>>

\* the first entry of environ that starts with PATH=, as [some, v]
FirstPath(environ) ==
    LET S == {i \in 1..Len(environ) : HasPrefix(environ[i], S_PATH)}
    IN  IF S = {} THEN [some |-> FALSE, v |-> << >>]
        ELSE [some |-> TRUE, v |-> environ[CHOOSE i \in S : \A j \in S : i <= j]]

\* C9: with a path that is not absolute and an environment entry PATH=V, the
\* root is exactly V, the text after PATH= of the first such entry.
C9_RootIsPathValue ==
    (/\ bpc = "done"
     /\ Len(proc_args.data) >= 1
     /\ ~is_absolute(decoded.exe)
     /\ FirstPath(decoded.environ).some)
    => decoded.root =
         SubSeq(FirstPath(decoded.environ).v, Len(S_PATH) + 1,
                Len(FirstPath(decoded.environ).v))

RECURSIVE NulStrings(_, _, _)
\* the NUL-terminated strings of data from position cp on
NulStrings(data, cp, start) ==
    IF cp > Len(data) THEN << >>
    ELSE IF data[cp] = NUL
         THEN <<SubSeq(data, start, cp - 1)>> \o NulStrings(data, cp + 1, cp + 1)
         ELSE NulStrings(data, cp + 1, start)

Take(s, n) == SubSeq(s, 1, IF n < Len(s) THEN n ELSE Len(s))

\* C10: the argument vector of the new descriptor is the first argc
\* NUL-terminated strings after the path and its padding, in order and
\* unchanged (fewer only when the buffer ends first).
C10_ArgvVerbatim ==
    (bpc = "done" /\ Len(proc_args.data) >= 1 /\ ~decoded.panicked)
    => LET first == SkipNuls(proc_args.data, ScanToNul(proc_args.data, 1))
       IN  decoded.cmd =
             Take(NulStrings(proc_args.data, first, first), proc_args.n_args)

\* the text after the last '/' of a path, and the text before it
LastComponent(p) == SubSeq(p, LastSlash(p) + 1, Len(p))
ParentDir(p) == IF LastSlash(p) = 1 THEN <<"/">> ELSE SubSeq(p, 1, LastSlash(p) - 1)

\* the buffers of the layout with path /usr/bin/foo, argc 2 and the argument
\* strings foo and "bar baz", whatever the padding and the environment
FooBuffers ==
    {[n_args |-> 2, data |-> Layout(S_usr_bin_foo, pad, <<S_foo, S_bar_baz>>, envs, 0)] :
        pad \in Paddings, envs \in UNION {[1..k -> EnvStrings] : k \in 0..MaxEnvs}}

\* C11: when the path of the buffer is absolute, the name is its last
\* component and the root its parent directory, whatever PATH= entries the
\* environment holds; path /usr/bin/foo with arguments foo and "bar baz" gives
\* name foo, two arguments and root /usr/bin.
C11_AbsolutePathRoot ==
    (bpc = "done" /\ Len(proc_args.data) >= 1 /\ proc_args.n_args >= 0) =>
        /\ is_absolute(decoded.exe) =>
              /\ ~decoded.panicked
              /\ decoded.name = LastComponent(decoded.exe)
              /\ decoded.root = ParentDir(decoded.exe)
        /\ proc_args \in FooBuffers =>
              /\ decoded.exe = S_usr_bin_foo
              /\ decoded.name = S_foo
              /\ decoded.cmd = <<S_foo, S_bar_baz>>
              /\ decoded.root = <<"/", "u", "s", "r", "/", "b", "i", "n">>

C11_Witness ==
    /\ bpc = "done"
    /\ proc_args \in FooBuffers
    /\ FirstPath(decoded.environ).some
    /\ decoded.name = S_foo
    /\ Len(decoded.cmd) = 2
    /\ decoded.root = <<"/", "u", "s", "r", "/", "b", "i", "n">>

\* C12: after every refresh_cpu call that has per-core entries, the usage of
\* the aggregate entry is the mean of the usages of the per-core entries.
C12_AggregateIsMean ==
    (cpu_calls >= 1 /\ Len(processors) > 1) =>
        FEq(get_cpu_usage(processors[1]),
            FDiv(Pourcent(processors, 2), Len(processors) - 1))

\* C13: a refresh_processes call whose enumeration reports fewer than 1 PID
\* (a sizing call or the listing call answers less than 1) changes nothing:
\* no entry is added, removed or modified, no marker is changed.
C13_NoPidsNoOp ==
    [][(last'.op = "abandoned" /\ last'.ret \in {"sizing", "sizing2", "empty"}) =>
          /\ process_list' = process_list
          /\ UNCHANGED <<phase, pids, wpc, wres, entries>>]_vars

C13_Witness ==
    /\ last.op = "abandoned"
    /\ last.ret = "sizing"
    /\ \E q \in DOMAIN process_list : ~process_list[q].updated
    /\ \E q \in DOMAIN process_list : process_list[q].updated

\* C14: in a cycle where update_process returned Err for some PID, the sweep
\* is still reached, and when it runs every enumerated PID has been processed
\* and every descriptor returned in the cycle has been inserted.
C14_ErrDoesNotAbort ==
    [][/\ (phase = "parallel" /\ AllDone) => ENABLED Collect
       /\ (phase = "merge" /\ entries # << >>) => ENABLED MergeOne
       /\ (phase = "merge" /\ entries = << >>) => ENABLED Sweep
       /\ (phase = "merge" /\ phase' = "swept" /\ \E i \in DOMAIN wres : wres[i] = Err) =>
             /\ \A i \in DOMAIN pids : wres[i].tag \in {"Err", "OkNone", "OkSome"}
             /\ \A i \in DOMAIN pids :
                   wres[i].tag = "OkSome" => /\ pids[i] \in DOMAIN process_list
                                             /\ process_list[pids[i]] = wres[i].p
             /\ process_list' = clear_procs(process_list)]_vars

C14_Witness ==
    /\ phase = "merge"
    /\ entries = << >>
    /\ last.op = "insert"
    /\ \E i, j \in DOMAIN wres :
          /\ i < j
          /\ wres[i] = Err
          /\ wres[j].tag = "OkSome"
          /\ pids[j] \in DOMAIN process_list

\* C15: once the enumeration has failed on the first use of the cache, the
\* cache holds the empty table from then on, the enumeration is not invoked
\* again, and every volume looked up gets DiskType::Unknown(-2).
C15_FailedEnumerationSticks ==
    (Len(enum_log) >= 1 /\ ~enum_log[1]) =>
        /\ Len(enum_log) = 1
        /\ DISK_TYPES.some => DISK_TYPES.v = EmptyTable
        /\ \A t \in Callers : dseen[t].some =>
              \A name \in Volumes : TypeOf(dseen[t].v, name) = Unknown(-2)

\* C16: refresh_process(pid) removes no entry of the table and changes no
\* entry whose key differs from pid, whatever it returns.
C16_RefreshProcessFrame ==
    [][last'.op = "refresh_process" =>
          /\ DOMAIN process_list \subseteq DOMAIN process_list'
          /\ DOMAIN process_list' \subseteq DOMAIN process_list \cup {last'.pid}
          /\ \A q \in DOMAIN process_list :
                q # last'.pid => process_list'[q] = process_list[q]]_vars

C16_Witness ==
    /\ last.op = "refresh_process"
    /\ last.ret = "false"
    /\ \E q \in DOMAIN process_list : q # last.pid /\ ~process_list[q].updated
    /\ last.pre = "nonzero"
    /\ last.pid \in DOMAIN process_list

\* C17: for a PID not in the table, a failed decode is followed by the query
\* of /bin/ps, so the PID is dropped only after ps has failed too.
C17_DecodeFailureFallsBack ==
    (Handled(last) /\ last.pre = "absent" /\ last.ret \in {"Err", "false"})
        => "ps" \in last.queries

\* C18: whatever buffer the kernel returns for a PID, the decode of
\* update_process comes to its end without a fault.
C18_DecodeNeverFaults ==
    bpc = "done" => ~decoded.panicked

\* the fields of a descriptor that the incremental update has no business with
Stable(p) == [pid |-> p.pid, parent |-> p.parent, decoded |-> p.decoded,
              process_status |-> p.process_status]

\* C19: a step of the incremental update of an entry with nonzero resident
\* memory leaves the decoded fields (path, name, arguments, environment, root),
\* the parent id and the process status of the entry as they were; it writes
\* the thread status, the memory sizes and the marker only.
C19_IncrementalFrame ==
    [][(Handled(last') /\ last'.pre = "nonzero") =>
          /\ last'.pid \in DOMAIN process_list
          /\ last'.pid \in DOMAIN process_list'
          /\ Stable(process_list'[last'.pid]) = Stable(process_list[last'.pid])]_vars

C19_Witness ==
    /\ Handled(last)
    /\ last.pre = "nonzero"
    /\ last.ret \in {"OkNone", "true"}
    /\ "taskinfo" \in last.queries
    /\ last.pid \in DOMAIN process_list
    /\ process_list[last.pid].parent = 1
    /\ process_list[last.pid].decoded = "procargs2"
    /\ process_list[last.pid].status = "Running"
    /\ process_list[last.pid].updated

\* C20: the table is published once: no step replaces it after it has been
\* published, and none writes it while the callback of a caller runs on it.
C20_PublishedOnce ==
    [][/\ DISK_TYPES.some => DISK_TYPES' = DISK_TYPES
       /\ (\E t \in Callers : dpc[t] = "callback") => DISK_TYPES' = DISK_TYPES]_vars

\* the usage the claim gives to a core that spent in_use ticks out of total
ClaimedUsage(in_use, total) == IF total = 0 THEN Zero ELSE [n |-> in_use, d |-> total]

\* C21: every refresh_cpu call that reads the counters gives each core the
\* usage in_use / total of the ticks since the previous read, and 0 when
\* total is 0.
C21_CoreUsage ==
    [][(cpu_calls' = cpu_calls + 1 /\ processors' # processors) =>
          \A i \in 2..Len(processors') :
             LET old == IF processors = << >> THEN NoTicks ELSE processors[i].data
                 new == processors'[i].data
                 in_use == new.in_use - old.in_use
                 total == in_use + (new.idle - old.idle)
             IN  FEq(get_cpu_usage(processors'[i]), ClaimedUsage(in_use, total))]_vars

\* C22: a refresh_processes call is abandoned only when the enumeration
\* reports fewer than 1 PID; with at least one PID returned by the kernel the
\* cycle runs.
C22_AbandonedOnlyWhenEmpty ==
    last.op = "abandoned" => last.ret \in {"sizing", "sizing2", "empty"}

\* the names looked up: the entries of /Volumes and the media of the registry
LookedUp == Volumes \cup {"disk0s1"}
\* the media of a registry that the enumeration reads as whole devices
WholeMedia(reg) ==
    IF ~reg.ok THEN {}
    ELSE {reg.media[i] : i \in {j \in 1..Len(reg.media) :
                                   reg.media[j].props /\ reg.media[j].whole /\ reg.media[j].named}}

\* C23: the type given to a name is SSD, HDD or Unknown with a negative
\* code; it is Unknown(-1) exactly for a whole device flagged RAID and
\* Unknown(-2) exactly for a name that is not in the index.
C23_DiskTypeCodes ==
    \A t \in Callers : dseen[t].some =>
       \E reg \in Registries :
          /\ dseen[t].v = get_disk_types(reg)
          /\ \A name \in LookedUp :
                LET ty == TypeOf(dseen[t].v, name)
                IN  /\ ty.kind \in {"SSD", "HDD", "Unknown"}
                    /\ ty.kind = "Unknown" => ty.code < 0
                    /\ ty = Unknown(-1) <=>
                          \E m \in WholeMedia(reg) : m.name = name /\ m.raid
                    /\ ty = Unknown(-2) <=>
                          ~\E m \in WholeMedia(reg) : m.name = name

C23_Witness ==
    \E t \in Callers :
       /\ dpc[t] = "callback"
       /\ dseen[t].some
       /\ TypeOf(dseen[t].v, "disk1") = Unknown(-1)
       /\ TypeOf(dseen[t].v, "disk0") = SSD
       /\ TypeOf(dseen[t].v, "Data") = Unknown(-2)

\* C24: update_process returns a descriptor only for a PID that is not in
\* the table when it looks it up, so neither the merge of a cycle nor the
\* insert of refresh_process replaces an entry that exists.
C24_InsertOnlyAbsent ==
    [][/\ (phase = "parallel" /\ phase' = "parallel") =>
             \A i \in DOMAIN wres :
                (wres[i].tag # "OkSome" /\ wres'[i].tag = "OkSome")
                    => pids[i] \notin DOMAIN process_list
       /\ last'.op = "insert" => last'.pid \notin DOMAIN process_list
       /\ (last'.op = "refresh_process" /\ last'.pid \in DOMAIN process_list) =>
             /\ last'.pre # "absent"
             /\ Stable(process_list'[last'.pid]) = Stable(process_list[last'.pid])]_vars

C24_Witness ==
    /\ phase = "merge"
    /\ last.op = "insert"
    /\ last.pid \in DOMAIN process_list
    /\ \E i, j \in DOMAIN pids :
          /\ wres[i].tag = "OkNone"
          /\ pids[i] \in DOMAIN process_list
          /\ wres[j].tag = "OkSome"
          /\ pids[j] = last.pid

\* a descriptor without its marker
Unmarked(p) == [p EXCEPT !.updated = FALSE]

\* C25: resident memory 0 is absorbing: as long as an entry with memory 0
\* stays in the table no step changes any of its fields but the marker, and
\* a refresh that handles it marks it and reports success.
C25_ZeroMemoryAbsorbing ==
    [][/\ \A q \in DOMAIN process_list \cap DOMAIN process_list' :
             process_list[q].memory = 0 =>
                Unmarked(process_list'[q]) = Unmarked(process_list[q])
       /\ (Handled(last') /\ last'.pre = "zero") =>
             /\ last'.ret \notin {"Err", "false"}
             /\ last'.pid \in DOMAIN process_list'
             /\ process_list'[last'.pid].updated]_vars

C25_Witness ==
    /\ last.op = "refresh_process"
    /\ last.pre = "zero"
    /\ last.ret = "true"
    /\ last.pid \in DOMAIN process_list
    /\ process_list[last.pid].memory = 0
    /\ process_list[last.pid].status = "Running"
    /\ process_list[last.pid].decoded = "procargs2"

\* C26: a refresh_process whose incremental update fails (it returns false
\* for an entry with nonzero memory) leaves every field of the entry as it was.
C26_FailedUpdateChangesNothing ==
    [][(last'.op = "refresh_process" /\ last'.pre = "nonzero" /\ last'.ret = "false") =>
          /\ last'.pid \in DOMAIN process_list'
          /\ process_list'[last'.pid] = process_list[last'.pid]]_vars

\* C27: after any sequence of refresh_memory calls, whatever the host queries
\* answer, mem_free <= mem_total and swap_free <= swap_total, and no
\* subtraction of the call or of get_used_memory / get_used_swap underflows
C27_FreeWithinTotal ==
    /\ ~mem_panicked
    /\ mem_free <= mem_total
    /\ swap_free <= swap_total
    /\ get_used_memory = mem_total - mem_free
    /\ get_used_swap = swap_total - swap_free

====
